---- MODULE Spec2Model ----
(***************************************************************************)
(* A model of src/minesweeper.py: the ground-truth board (Minesweeper),    *)
(* the logical sentence (Sentence) and the knowledge-based player          *)
(* (MinesweeperAI) with its knowledge-base update add_knowledge and its    *)
(* two move selectors.                                                     *)
(*                                                                         *)
(* A cell is the tuple <<i, j>>.  A sentence is the record                 *)
(* [cells, count].  The pool self.knowledge is a sequence of sentences in  *)
(* list order.  add_knowledge runs to completion without suspension, so it *)
(* is one action; the intermediate values of the call that the properties  *)
(* speak about are kept in the record `last`.                              *)
(***************************************************************************)
EXTENDS Integers, Sequences, FiniteSets, TLC

\* ------------------------------------------------------------------ bounds
MaxHeight == 3
MaxWidth == 3
MaxCells == 9
MaxMines == 2
MaxMoves == 3
\* bounds of the specification with an untrusted oracle (SpecAny)
AnyHeight == 1
AnyWidth == 2
MaxCount == 2
MaxCalls == 2
\* number of cells a sentence under test is drawn from (SpecSentence)
SentCells == 4
\* board area, mines and calls of the statement-level run (SpecSteps)
StepCells == 6
StepMines == 2
StepMoves == 4

VARIABLES height, width, board, moves_made, mines, safes, knowledge,
          calls, op, ret, last

vars == <<height, width, board, moves_made, mines, safes, knowledge,
          calls, op, ret, last>>

\* Python's None, as a value comparable with a cell.
None == <<>>

\* ------------------------------------------------------------ Minesweeper
\* The (k, l) pairs of a height x width grid (add_knowledge's all_moves).
all_moves(h, w) == (0 .. h - 1) \X (0 .. w - 1)

\* Minesweeper.nearby_mines: mines within one row and column of cell, the
\* cell itself excluded, out-of-bounds positions ignored.
nearby_mines(b, h, w, cell) ==
    Cardinality({ c \in (cell[1] - 1 .. cell[1] + 1) \X (cell[2] - 1 .. cell[2] + 1) :
                    /\ c # cell
                    /\ 0 <= c[1] /\ c[1] < h /\ 0 <= c[2] /\ c[2] < w
                    /\ c \in b })

\* --------------------------------------------------------------- Sentence
Sentence(cells, count) == [cells |-> cells, count |-> count]

\* Sentence.__eq__: structural equality on (cells, count).
Sentence_eq(a, b) == a.cells = b.cells /\ a.count = b.count

\* A variant that takes every cell of a sentence with a positive count.
known_mines_positive(s) == IF s.count > 0 THEN s.cells ELSE {}

\* A variant that also fires when the count exceeds the number of cells.
known_mines_atleast(s) == IF s.count >= Cardinality(s.cells) THEN s.cells ELSE {}

known_mines(s) == IF Cardinality(s.cells) = s.count THEN s.cells ELSE {}

\* A variant that tests the condition of known_mines.
known_safes_swapped(s) == IF Cardinality(s.cells) = s.count THEN s.cells ELSE {}

known_safes(s) == IF s.count = 0 THEN s.cells ELSE {}

\* A variant that forgets to decrement the count.
Sentence_mark_mine_nodec(s, cell) ==
    IF cell \in s.cells
    THEN [s EXCEPT !.cells = @ \ {cell}]
    ELSE s

Sentence_mark_mine(s, cell) ==
    IF cell \in s.cells
    THEN [s EXCEPT !.cells = @ \ {cell}, !.count = @ - 1]
    ELSE s

\* A variant that leaves the cell in the sentence.
Sentence_mark_safe_keep(s, cell) == s

Sentence_mark_safe(s, cell) ==
    IF cell \in s.cells
    THEN [s EXCEPT !.cells = @ \ {cell}]
    ELSE s

\* ---------------------------------------------------------- MinesweeperAI
(***************************************************************************)
(* The knowledge base during a call is the record                          *)
(*   [moves_made, mines, safes, knowledge, additional].                    *)
(* `additional` is add_knowledge's local list additional_knowledge.  Its   *)
(* entries carry the flag inPool: the Sentence object was appended to      *)
(* self.knowledge (line 284) and is therefore the same object as a pool    *)
(* entry, so every marking, which walks self.knowledge, mutates it too.    *)
(* An entry that was not appended is a private object no marking reaches.  *)
(* Only sentences with an empty cell set are ever removed from a list, and *)
(* a marking does not change such a sentence, so the flag is exact.        *)
(***************************************************************************)
Plain(e) == Sentence(e.cells, e.count)
Shared(s) == [cells |-> s.cells, count |-> s.count, inPool |-> TRUE]
Private(s) == [cells |-> s.cells, count |-> s.count, inPool |-> FALSE]

\* A variant that records the mine without visiting the sentences.
mark_mine_nopool(kb, cell) == [kb EXCEPT !.mines = @ \cup {cell}]

mark_mine(kb, cell) ==
    [kb EXCEPT
        !.mines = @ \cup {cell},
        !.knowledge = [i \in DOMAIN @ |-> Sentence_mark_mine(@[i], cell)],
        !.additional = [i \in DOMAIN @ |->
            IF @[i].inPool THEN Shared(Sentence_mark_mine(Plain(@[i]), cell))
            ELSE @[i]]]

\* A variant that moves the cell out of the mines set.
mark_safe_moving(kb, cell) ==
    [kb EXCEPT
        !.safes = @ \cup {cell},
        !.mines = @ \ {cell},
        !.knowledge = [i \in DOMAIN @ |-> Sentence_mark_safe(@[i], cell)],
        !.additional = [i \in DOMAIN @ |->
            IF @[i].inPool THEN Shared(Sentence_mark_safe(Plain(@[i]), cell))
            ELSE @[i]]]

mark_safe(kb, cell) ==
    [kb EXCEPT
        !.safes = @ \cup {cell},
        !.knowledge = [i \in DOMAIN @ |-> Sentence_mark_safe(@[i], cell)],
        !.additional = [i \in DOMAIN @ |->
            IF @[i].inPool THEN Shared(Sentence_mark_safe(Plain(@[i]), cell))
            ELSE @[i]]]

\* `for mine in bin: self.mark_mine(mine)` over a copied set of cells.
RECURSIVE MarkMines(_, _)
MarkMines(kb, bin) ==
    IF bin = {} THEN kb
    ELSE LET m == CHOOSE c \in bin : TRUE
         IN MarkMines(mark_mine(kb, m), bin \ {m})

\* `for safe in bin: self.mark_safe(safe)` over a copied set of cells.
RECURSIVE MarkSafes(_, _)
MarkSafes(kb, bin) ==
    IF bin = {} THEN kb
    ELSE LET s == CHOOSE c \in bin : TRUE
         IN MarkSafes(mark_safe(kb, s), bin \ {s})

\* A variant that forgets the diagonal positions.
Neighbors_no_diagonal(h, w, cell) ==
    LET i == cell[1]
        j == cell[2]
        L == { <<i + 1, j>>, <<i, j - 1>>, <<i, j + 1>>, <<i - 1, j>> }
    IN { c \in L : c \in all_moves(h, w) }

\* The eight positions around cell that lie on the board (lines 199-208).
Neighbors(h, w, cell) ==
    LET i == cell[1]
        j == cell[2]
        L == { <<i + 1, j>>, <<i + 1, j + 1>>, <<i + 1, j - 1>>, <<i, j - 1>>,
               <<i, j + 1>>, <<i - 1, j - 1>>, <<i - 1, j>>, <<i - 1, j + 1>> }
    IN { c \in L : c \in all_moves(h, w) }

\* A variant that keeps the observed count whatever the known mines.
NewSentence_nodec(kb, h, w, cell, count) ==
    LET neighbors == Neighbors(h, w, cell)
        eliminated_cells == { n \in neighbors :
                                \/ n \in kb.mines
                                \/ n \in kb.safes
                                \/ n \in kb.moves_made }
    IN Sentence(neighbors \ eliminated_cells, count)

\* A variant that leaves the played and known-safe neighbours in the sentence.
NewSentence_keep_safes(kb, h, w, cell, count) ==
    LET neighbors == Neighbors(h, w, cell)
        c == count - Cardinality({ n \in neighbors : n \in kb.mines })
        eliminated_cells == { n \in neighbors : n \in kb.mines }
    IN Sentence(neighbors \ eliminated_cells, c)

\* Lines 211-225: the sentence built from the observation.
NewSentence(kb, h, w, cell, count) ==
    LET neighbors == Neighbors(h, w, cell)
        c == count - Cardinality({ n \in neighbors : n \in kb.mines })
        eliminated_cells == { n \in neighbors :
                                \/ n \in kb.mines
                                \/ n \in kb.safes
                                \/ n \in kb.moves_made }
    IN Sentence(neighbors \ eliminated_cells, c)

\* Lines 228-242: the facts of the new sentence, both tile sets read before
\* any marking, mines marked first.
MarkNewSentence(kb, new_sentence) ==
    LET new_safe_tiles == known_safes(new_sentence)
        new_mine_tiles == known_mines(new_sentence)
        kb1 == IF new_mine_tiles # {} THEN MarkMines(kb, new_mine_tiles) ELSE kb
    IN IF new_safe_tiles # {} THEN MarkSafes(kb1, new_safe_tiles) ELSE kb1

\* Lines 246-262: one pass over the pool in list order; each sentence is
\* read as the markings of the earlier iterations left it.
RECURSIVE ExtractPass(_, _)
ExtractPass(kb, i) ==
    IF i > Len(kb.knowledge) THEN kb
    ELSE LET sentence == kb.knowledge[i]
             s_tiles == known_safes(sentence)
             m_tiles == known_mines(sentence)
             kb1 == IF s_tiles # {} THEN MarkSafes(kb, s_tiles) ELSE kb
             kb2 == IF m_tiles # {} THEN MarkMines(kb1, m_tiles) ELSE kb1
         IN ExtractPass(kb2, i + 1)

\* list.remove(x): drops the first element equal to x.
RECURSIVE RemoveFirst(_, _)
RemoveFirst(list, x) ==
    IF list = <<>> THEN <<>>
    ELSE IF Sentence_eq(Head(list), x) THEN Tail(list)
    ELSE <<Head(list)>> \o RemoveFirst(Tail(list), x)

\* `for sentence in list: if len(sentence.cells)==0: list.remove(sentence)`
\* (lines 264-266, 286-288, 291-293).  The list iterator keeps an index that
\* advances by one every iteration while the removal shifts the tail left.
RECURSIVE RemoveEmpty(_, _)
RemoveEmpty(list, i) ==
    IF i > Len(list) THEN list
    ELSE IF list[i].cells = {}
         THEN RemoveEmpty(RemoveFirst(list, list[i]), i + 1)
         ELSE RemoveEmpty(list, i + 1)

\* Lines 269-279: the ordered pairs of the pool, sentence1 outer, sentence2
\* inner; a pair yields (cells1 - cells2, count1 - count2) when the two are
\* not equal and cells2 is a subset of cells1.
RECURSIVE Resolve(_, _, _, _)
Resolve(K, i, j, acc) ==
    IF i > Len(K) THEN acc
    ELSE IF j > Len(K) THEN Resolve(K, i + 1, 1, acc)
    ELSE IF ~ Sentence_eq(K[j], K[i]) /\ K[j].cells \subseteq K[i].cells
         THEN Resolve(K, i, j + 1,
                 Append(acc, Sentence(K[i].cells \ K[j].cells, K[i].count - K[j].count)))
         ELSE Resolve(K, i, j + 1, acc)

\* A variant that finds no sentence in the pool.
NotIn_always(s, K) == TRUE

\* `sentence not in self.knowledge`
NotIn(s, K) == \A i \in DOMAIN K : ~ Sentence_eq(K[i], s)

\* Lines 281-284: append each derived sentence the pool holds no equal of.
\* The result is the pool and the derived list with its inPool flags.
RECURSIVE AppendNew(_, _, _, _)
AppendNew(K, derived, i, flagged) ==
    IF i > Len(derived) THEN [knowledge |-> K, additional |-> flagged]
    ELSE IF NotIn(derived[i], K)
         THEN AppendNew(Append(K, derived[i]), derived, i + 1,
                 Append(flagged, Shared(derived[i])))
         ELSE AppendNew(K, derived, i + 1,
                 Append(flagged, Private(derived[i])))

\* A variant that draws no conclusion from the derived sentences.
ExtractAdditional_none(kb, i) == kb

\* Lines 295-309: one pass over additional_knowledge in list order.
RECURSIVE ExtractAdditional(_, _)
ExtractAdditional(kb, i) ==
    IF i > Len(kb.additional) THEN kb
    ELSE LET sentence == kb.additional[i]
             s_tiles2 == known_safes(sentence)
             m_tiles2 == known_mines(sentence)
             kb1 == IF s_tiles2 # {} THEN MarkSafes(kb, s_tiles2) ELSE kb
             kb2 == IF m_tiles2 # {} THEN MarkMines(kb1, m_tiles2) ELSE kb1
         IN ExtractAdditional(kb2, i + 1)

(***************************************************************************)
(* MinesweeperAI.add_knowledge(cell, count), lines 197-309, on the         *)
(* knowledge base kb0.  The result is the knowledge base at return (kb)    *)
(* with the values the call went through: the sentence it built, the pool  *)
(* at the resolution step and the sentences the resolution derived.  The   *)
(* function has no raise statement and none of its operations can fail, so *)
(* it always returns normally.                                             *)
(***************************************************************************)
add_knowledge(kb0, h, w, cell, count) ==
    LET k1 == mark_safe([kb0 EXCEPT !.moves_made = @ \cup {cell}], cell)
        new_sentence == NewSentence(k1, h, w, cell, count)
        k2 == [k1 EXCEPT !.knowledge = Append(@, new_sentence)]
        k3 == MarkNewSentence(k2, new_sentence)
        k4 == ExtractPass(k3, 1)
        k5 == [k4 EXCEPT !.knowledge = RemoveEmpty(@, 1)]
        derived == Resolve(k5.knowledge, 1, 1, <<>>)
        app == AppendNew(k5.knowledge, derived, 1, <<>>)
        k6 == [k5 EXCEPT !.knowledge = RemoveEmpty(app.knowledge, 1),
                         !.additional = RemoveEmpty(app.additional, 1)]
        k7 == ExtractAdditional(k6, 1)
    IN [kb |-> k7,
        new_sentence |-> new_sentence,
        resPool |-> k5.knowledge,
        derived |-> derived,
        outcome |-> "returned"]

\* A variant that does not look at moves_made.
make_safe_move_any(sf, mm) == IF sf # {} THEN sf ELSE {None}

\* MinesweeperAI.make_safe_move: the cells the loop over self.safes can
\* return (set iteration order is not fixed by the language), else None.
make_safe_move(sf, mm) ==
    IF { c \in sf : c \notin mm } # {}
    THEN { c \in sf : c \notin mm }
    ELSE {None}

\* MinesweeperAI.make_random_move: the cells random.randint can select from
\* possible_move, built from range(height-1) x range(width-1), else None.
make_random_move(h, w, mm, mn) ==
    LET universe == (0 .. h - 2) \X (0 .. w - 2)
        impossible_moves == mm \cup mn
        possible_move == universe \ impossible_moves
    IN IF possible_move # {} THEN possible_move ELSE {None}

\* ------------------------------------------------------------------ state
KB == [moves_made |-> moves_made, mines |-> mines, safes |-> safes,
       knowledge |-> knowledge, additional |-> <<>>]

NoCall == [cell |-> None, count |-> 0, new_sentence |-> Sentence({}, 0),
           resPool |-> <<>>, derived |-> <<>>, additional |-> <<>>,
           outcome |-> "none",
           pre |-> [moves_made |-> {}, mines |-> {}, safes |-> {}]]

\* MinesweeperAI.__init__ for a board of height x width cells.
InitAI ==
    /\ moves_made = {}
    /\ mines = {}
    /\ safes = {}
    /\ knowledge = <<>>
    /\ calls = 0
    /\ op = "init"
    /\ ret = None
    /\ last = NoCall

\* Minesweeper.__init__: a board with a set of distinct mine cells.
Init ==
    /\ height \in 1 .. MaxHeight
    /\ width \in 1 .. MaxWidth
    /\ height * width <= MaxCells
    /\ board \in { b \in SUBSET all_moves(height, width) : Cardinality(b) <= MaxMines }
    /\ InitAI

\* The effect of add_knowledge(cell, count) on the state.
DoAddKnowledge(cell, count) ==
    LET r == add_knowledge(KB, height, width, cell, count)
    IN /\ moves_made' = r.kb.moves_made
       /\ mines' = r.kb.mines
       /\ safes' = r.kb.safes
       /\ knowledge' = r.kb.knowledge
       /\ calls' = calls + 1
       /\ op' = "add_knowledge"
       /\ ret' = None
       /\ last' = [cell |-> cell, count |-> count,
                   new_sentence |-> r.new_sentence,
                   resPool |-> r.resPool,
                   derived |-> r.derived,
                   additional |-> r.kb.additional,
                   outcome |-> r.outcome,
                   pre |-> [moves_made |-> moves_made, mines |-> mines,
                            safes |-> safes]]
       /\ UNCHANGED <<height, width, board>>

\* The game loop reveals an unplayed cell that is not a mine and feeds the
\* board's neighbour count to the player.  The cell is any cell the human
\* player clicks or, when the player was just asked for a move, the cell it
\* proposed.
AddKnowledge(cell) ==
    /\ calls < MaxMoves
    /\ op \in {"make_safe_move", "make_random_move"} => cell = ret
    /\ cell \in all_moves(height, width)
    /\ cell \notin moves_made
    /\ cell \notin board
    /\ DoAddKnowledge(cell, nearby_mines(board, height, width, cell))

MakeSafeMove ==
    /\ ret' \in make_safe_move(safes, moves_made)
    /\ op' = "make_safe_move"
    /\ UNCHANGED <<height, width, board, moves_made, mines, safes, knowledge,
                   calls, last>>

MakeRandomMove ==
    /\ ret' \in make_random_move(height, width, moves_made, mines)
    /\ op' = "make_random_move"
    /\ UNCHANGED <<height, width, board, moves_made, mines, safes, knowledge,
                   calls, last>>

Next ==
    \/ \E cell \in all_moves(MaxHeight + 1, MaxWidth + 1) : AddKnowledge(cell)
    \/ MakeSafeMove
    \/ MakeRandomMove

Spec == Init /\ [][Next]_vars

(***************************************************************************)
(* The same player driven by a caller that is not trusted: any in-bounds   *)
(* cell with any count, and direct calls of the public mark_mine and       *)
(* mark_safe.                                                              *)
(***************************************************************************)
InitAny ==
    /\ height \in 1 .. AnyHeight
    /\ width \in 1 .. AnyWidth
    /\ board = {}
    /\ InitAI

AddKnowledgeAny(cell, count) ==
    /\ calls < MaxCalls
    /\ cell \in all_moves(height, width)
    /\ DoAddKnowledge(cell, count)

MarkMineCall(cell) ==
    /\ calls < MaxCalls
    /\ cell \in all_moves(height, width)
    /\ LET kb == mark_mine(KB, cell)
       IN /\ mines' = kb.mines
          /\ safes' = kb.safes
          /\ moves_made' = kb.moves_made
          /\ knowledge' = kb.knowledge
    /\ calls' = calls + 1
    /\ op' = "mark_mine"
    /\ ret' = None
    /\ UNCHANGED <<height, width, board, last>>

MarkSafeCall(cell) ==
    /\ calls < MaxCalls
    /\ cell \in all_moves(height, width)
    /\ LET kb == mark_safe(KB, cell)
       IN /\ mines' = kb.mines
          /\ safes' = kb.safes
          /\ moves_made' = kb.moves_made
          /\ knowledge' = kb.knowledge
    /\ calls' = calls + 1
    /\ op' = "mark_safe"
    /\ ret' = None
    /\ UNCHANGED <<height, width, board, last>>

NextAny ==
    \/ \E cell \in all_moves(AnyHeight + 1, AnyWidth + 1), count \in 0 .. MaxCount :
          AddKnowledgeAny(cell, count)
    \/ \E cell \in all_moves(AnyHeight + 1, AnyWidth + 1) : MarkMineCall(cell)
    \/ \E cell \in all_moves(AnyHeight + 1, AnyWidth + 1) : MarkSafeCall(cell)
    \/ MakeSafeMove
    \/ MakeRandomMove

SpecAny == InitAny /\ [][NextAny]_vars

(***************************************************************************)
(* add_knowledge statement by statement.  One step is the straight-line    *)
(* code up to the first loop, or one iteration of one of the loops of      *)
(* lines 246-309, or the exit of a loop.  The call in progress is the      *)
(* frame held in last: pc names the loop the call is in, i and j are the   *)
(* positions of the list iterators, additional is additional_knowledge     *)
(* (with the flag telling whether the object was also appended to the      *)
(* pool), pre is the knowledge base the call started from.  The caller is  *)
(* the game loop: true counts of unplayed cells that hold no mine, in any  *)
(* order, the next call only after the previous one returned.              *)
(***************************************************************************)
IdleFrame == [pc |-> "idle", cell |-> None, count |-> 0, i |-> 0, j |-> 0,
              additional |-> <<>>,
              pre |-> [moves_made |-> {}, mines |-> {}, safes |-> {},
                       knowledge |-> <<>>, additional |-> <<>>]]

InitSteps ==
    /\ height \in 1 .. MaxHeight
    /\ width \in 1 .. MaxWidth
    /\ height * width <= StepCells
    /\ board \in { b \in SUBSET all_moves(height, width) : Cardinality(b) <= StepMines }
    /\ moves_made = {}
    /\ mines = {}
    /\ safes = {}
    /\ knowledge = <<>>
    /\ calls = 0
    /\ op = "init"
    /\ ret = None
    /\ last = IdleFrame

\* The knowledge base of the call in progress.
KBS == [moves_made |-> moves_made, mines |-> mines, safes |-> safes,
        knowledge |-> knowledge, additional |-> last.additional]

\* The knowledge base kb and the frame fields pc, i, j become the state.
Goto(kb, pc, i, j) ==
    /\ moves_made' = kb.moves_made
    /\ mines' = kb.mines
    /\ safes' = kb.safes
    /\ knowledge' = kb.knowledge
    /\ last' = [last EXCEPT !.pc = pc, !.i = i, !.j = j,
                            !.additional = kb.additional]
    /\ UNCHANGED <<height, width, board, calls, op, ret>>

\* Lines 197-227: the cell is recorded and marked safe, the new sentence is
\* built and appended.
StartAddKnowledge(cell) ==
    /\ last.pc = "idle"
    /\ calls < StepMoves
    /\ cell \in all_moves(height, width)
    /\ cell \notin moves_made
    /\ cell \notin board
    /\ LET count == nearby_mines(board, height, width, cell)
           k1 == mark_safe([KB EXCEPT !.moves_made = @ \cup {cell}], cell)
           new_sentence == NewSentence(k1, height, width, cell, count)
       IN /\ moves_made' = k1.moves_made
          /\ mines' = k1.mines
          /\ safes' = k1.safes
          /\ knowledge' = Append(k1.knowledge, new_sentence)
          /\ last' = [pc |-> "facts", cell |-> cell, count |-> count,
                      i |-> 0, j |-> 0, additional |-> <<>>, pre |-> KB]
    /\ calls' = calls + 1
    /\ op' = "add_knowledge"
    /\ ret' = None
    /\ UNCHANGED <<height, width, board>>

\* Lines 228-242: the facts of the sentence just appended.
StepFacts ==
    /\ last.pc = "facts"
    /\ Goto(MarkNewSentence(KBS, knowledge[Len(knowledge)]), "extract", 1, 0)

\* A variant whose pass starts over at the end of the pool.
StepExtract_wrap ==
    /\ last.pc = "extract"
    /\ IF last.i <= Len(knowledge)
       THEN LET sentence == knowledge[last.i]
                s_tiles == known_safes(sentence)
                m_tiles == known_mines(sentence)
                kb1 == IF s_tiles # {} THEN MarkSafes(KBS, s_tiles) ELSE KBS
                kb2 == IF m_tiles # {} THEN MarkMines(kb1, m_tiles) ELSE kb1
            IN Goto(kb2, "extract", last.i + 1, 0)
       ELSE Goto(KBS, "extract", 1, 0)

\* Lines 246-262: one iteration of the pass over the pool, or its exit.
StepExtract ==
    /\ last.pc = "extract"
    /\ IF last.i <= Len(knowledge)
       THEN LET sentence == knowledge[last.i]
                s_tiles == known_safes(sentence)
                m_tiles == known_mines(sentence)
                kb1 == IF s_tiles # {} THEN MarkSafes(KBS, s_tiles) ELSE KBS
                kb2 == IF m_tiles # {} THEN MarkMines(kb1, m_tiles) ELSE kb1
            IN Goto(kb2, "extract", last.i + 1, 0)
       ELSE Goto(KBS, "cleanup1", 1, 0)

\* Lines 264-266: one iteration of the removal loop over the pool, or its
\* exit.
StepCleanup1 ==
    /\ last.pc = "cleanup1"
    /\ IF last.i <= Len(knowledge)
       THEN IF knowledge[last.i].cells = {}
            THEN Goto([KBS EXCEPT !.knowledge = RemoveFirst(@, @[last.i])],
                      "cleanup1", last.i + 1, 0)
            ELSE Goto(KBS, "cleanup1", last.i + 1, 0)
       ELSE Goto(KBS, "resolve", 1, 1)

\* Lines 269-279: one iteration of the inner loop over the pool, the exit of
\* the inner loop, or the exit of the outer loop.
StepResolve ==
    /\ last.pc = "resolve"
    /\ IF last.i > Len(knowledge) THEN Goto(KBS, "append", 1, 0)
       ELSE IF last.j > Len(knowledge) THEN Goto(KBS, "resolve", last.i + 1, 1)
       ELSE LET sentence1 == knowledge[last.i]
                sentence2 == knowledge[last.j]
            IN IF /\ ~ Sentence_eq(sentence2, sentence1)
                  /\ sentence2.cells \subseteq sentence1.cells
               THEN Goto([KBS EXCEPT !.additional =
                             Append(@, Private(Sentence(
                                 sentence1.cells \ sentence2.cells,
                                 sentence1.count - sentence2.count)))],
                         "resolve", last.i, last.j + 1)
               ELSE Goto(KBS, "resolve", last.i, last.j + 1)

\* Lines 281-284: one iteration of the loop over additional_knowledge, or
\* its exit.
StepAppend ==
    /\ last.pc = "append"
    /\ IF last.i <= Len(last.additional)
       THEN LET sentence == Plain(last.additional[last.i])
            IN IF NotIn(sentence, knowledge)
               THEN Goto([KBS EXCEPT !.knowledge = Append(@, sentence),
                                     !.additional[last.i] = Shared(sentence)],
                         "append", last.i + 1, 0)
               ELSE Goto(KBS, "append", last.i + 1, 0)
       ELSE Goto(KBS, "cleanup2", 1, 0)

\* Lines 286-288: one iteration of the second removal loop over the pool,
\* or its exit.
StepCleanup2 ==
    /\ last.pc = "cleanup2"
    /\ IF last.i <= Len(knowledge)
       THEN IF knowledge[last.i].cells = {}
            THEN Goto([KBS EXCEPT !.knowledge = RemoveFirst(@, @[last.i])],
                      "cleanup2", last.i + 1, 0)
            ELSE Goto(KBS, "cleanup2", last.i + 1, 0)
       ELSE Goto(KBS, "cleanup3", 1, 0)

\* Lines 291-293: one iteration of the removal loop over
\* additional_knowledge, or its exit.
StepCleanup3 ==
    /\ last.pc = "cleanup3"
    /\ IF last.i <= Len(last.additional)
       THEN IF last.additional[last.i].cells = {}
            THEN Goto([KBS EXCEPT !.additional = RemoveFirst(@, @[last.i])],
                      "cleanup3", last.i + 1, 0)
            ELSE Goto(KBS, "cleanup3", last.i + 1, 0)
       ELSE Goto(KBS, "final", 1, 0)

\* Lines 295-309: one iteration of the pass over additional_knowledge, or
\* the return of the call.
StepFinal ==
    /\ last.pc = "final"
    /\ IF last.i <= Len(last.additional)
       THEN LET sentence == last.additional[last.i]
                s_tiles2 == known_safes(sentence)
                m_tiles2 == known_mines(sentence)
                kb1 == IF s_tiles2 # {} THEN MarkSafes(KBS, s_tiles2) ELSE KBS
                kb2 == IF m_tiles2 # {} THEN MarkMines(kb1, m_tiles2) ELSE kb1
            IN Goto(kb2, "final", last.i + 1, 0)
       ELSE Goto(KBS, "idle", 0, 0)

\* The statements of a call in progress.
Running ==
    \/ StepFacts
    \/ StepExtract
    \/ StepCleanup1
    \/ StepResolve
    \/ StepAppend
    \/ StepCleanup2
    \/ StepCleanup3
    \/ StepFinal

NextSteps ==
    \/ \E cell \in all_moves(height, width) : StartAddKnowledge(cell)
    \/ Running

\* The interpreter runs a call to completion: a call in progress always
\* takes its next statement.
SpecSteps == InitSteps /\ [][NextSteps]_vars /\ WF_vars(Running)

(***************************************************************************)
(* The Sentence class on its own: one sentence, drawn from the sentences   *)
(* over a row of cells, held as the only element of the pool; the two      *)
(* queries are called on it and their result is kept in ret.               *)
(***************************************************************************)
InitSentence ==
    /\ height = 1
    /\ width = SentCells
    /\ board = {}
    /\ moves_made = {}
    /\ mines = {}
    /\ safes = {}
    /\ \E cells \in SUBSET all_moves(1, SentCells), count \in 0 .. MaxCount :
          knowledge = <<Sentence(cells, count)>>
    /\ calls = 0
    /\ op = "init"
    /\ ret = None
    /\ last = NoCall

KnownMinesCall ==
    /\ ret' = known_mines(knowledge[1])
    /\ op' = "known_mines"
    /\ UNCHANGED <<height, width, board, moves_made, mines, safes, knowledge,
                   calls, last>>

KnownSafesCall ==
    /\ ret' = known_safes(knowledge[1])
    /\ op' = "known_safes"
    /\ UNCHANGED <<height, width, board, moves_made, mines, safes, knowledge,
                   calls, last>>

NextSentence ==
    \/ KnownMinesCall
    \/ KnownSafesCall

SpecSentence == InitSentence /\ [][NextSentence]_vars

\* ------------------------------------------------------------- properties
InRange(s) == 0 <= s.count /\ s.count <= Cardinality(s.cells)

\* The in-bounds cells within Chebyshev distance 1 of cell, cell excluded.
Abs(x) == IF x < 0 THEN -x ELSE x
Chebyshev1(cell) ==
    { c \in all_moves(height, width) :
        c # cell /\ Abs(c[1] - cell[1]) <= 1 /\ Abs(c[2] - cell[2]) <= 1 }

\* C1 (Soundness): with true counts of one fixed board fed for unplayed
\* non-mine cells, every cell of mines is a mine of the board and no cell of
\* safes is.
C1_Soundness == mines \subseteq board /\ safes \cap board = {}

\* A mine and an unrevealed safe cell have both been inferred.
C1_Witness ==
    /\ op = "add_knowledge"
    /\ mines # {}
    /\ safes \ moves_made # {}

\* C2: after any sequence of add_knowledge calls that meet the ingest
\* preconditions, safes and mines are disjoint.
C2_Disjoint == safes \cap mines = {}

\* Two calls have been made and both sets hold inferred cells.
C2_Witness ==
    /\ calls >= 2
    /\ mines # {}
    /\ Cardinality(safes) > Cardinality(moves_made)

\* C3: when add_knowledge has returned, no pool sentence with a non-empty
\* cell set has count 0 or count equal to the size of its cell set.
C3_Fixpoint ==
    \A i \in DOMAIN knowledge :
        knowledge[i].cells # {} =>
            /\ knowledge[i].count # 0
            /\ knowledge[i].count # Cardinality(knowledge[i].cells)

\* C4: the results make_random_move can give are exactly the cells of the
\* full grid that are neither played nor known mines, and None exactly when
\* there is no such cell.
C4_RandomUniverse ==
    LET full == (all_moves(height, width) \ moves_made) \ mines
    IN make_random_move(height, width, moves_made, mines) =
          (IF full # {} THEN full ELSE {None})

\* C5: in a consistent observation sequence every sentence of the pool has
\* 0 <= count <= |cells| after any add_knowledge call.
C5_CountInRange == \A i \in DOMAIN knowledge : InRange(knowledge[i])

\* The pool holds an undecided sentence: some but not all of its cells are
\* mines.
C5_Witness ==
    /\ op = "add_knowledge"
    /\ \E i \in DOMAIN knowledge :
          /\ 0 < knowledge[i].count
          /\ knowledge[i].count < Cardinality(knowledge[i].cells)

\* C6: an add_knowledge call in which the sentence built from the
\* observation, a sentence derived by resolution or a sentence left in the
\* pool has a count below 0 or above the size of its cell set ends with a
\* failure reported to the caller.
C6_InconsistencyReported ==
    ( /\ op = "add_knowledge"
      /\ \/ ~ InRange(last.new_sentence)
         \/ \E i \in DOMAIN last.derived : ~ InRange(last.derived[i])
         \/ \E i \in DOMAIN knowledge : ~ InRange(knowledge[i]) )
    => last.outcome = "raised"

\* C7 (Monotonicity): no step of any sequence of add_knowledge, mark_mine
\* and mark_safe calls removes a cell from safes, mines or moves_made.
C7_Monotonic ==
    [][ /\ safes \subseteq safes'
        /\ mines \subseteq mines'
        /\ moves_made \subseteq moves_made' ]_vars

\* A cell sits in both sets after two calls, so a later marking had the
\* occasion to move it.
C7_Witness ==
    /\ calls = 2
    /\ safes \cap mines # {}

\* C8 (Subset resolution): for every two unequal sentences A and B of the
\* pool at the resolution step with B.cells a subset of A.cells, the sentence
\* (A.cells - B.cells, A.count - B.count) is derived, and at return its cells
\* are all in mines when the count equals their number and all in safes when
\* the count is 0.
C8_SubsetResolution ==
    op = "add_knowledge" =>
        \A i, j \in DOMAIN last.resPool :
            LET A == last.resPool[i]
                B == last.resPool[j]
                D == A.cells \ B.cells
                n == A.count - B.count
            IN (~ Sentence_eq(A, B) /\ B.cells \subseteq A.cells) =>
                  /\ \E k \in DOMAIN last.derived :
                        Sentence_eq(last.derived[k], Sentence(D, n))
                  /\ (n = Cardinality(D) => D \subseteq mines)
                  /\ (n = 0 => D \subseteq safes)

\* The resolution step met a pair with a non-empty B whose difference is all
\* mines, and the call marked a mine that was not known before.
C8_Witness ==
    /\ op = "add_knowledge"
    /\ \E i, j \in DOMAIN last.resPool :
          LET A == last.resPool[i]
              B == last.resPool[j]
              D == A.cells \ B.cells
          IN /\ B.cells # {}
             /\ B.cells \subseteq A.cells
             /\ D # {}
             /\ A.count - B.count = Cardinality(D)
             /\ D \cap last.pre.mines = {}
             /\ D \subseteq mines

\* C9: add_knowledge(cell, 0) in a consistent state leaves cell and every
\* in-bounds cell within Chebyshev distance 1 of it in safes, and cell in
\* moves_made.
C9_ZeroCount ==
    (op = "add_knowledge" /\ last.count = 0) =>
        /\ last.cell \in safes
        /\ Chebyshev1(last.cell) \subseteq safes
        /\ last.cell \in moves_made

\* A zero was observed on an interior cell: eight neighbours, all safe.
C9_Witness ==
    /\ op = "add_knowledge"
    /\ last.count = 0
    /\ Cardinality(Chebyshev1(last.cell)) = 8
    /\ Chebyshev1(last.cell) \subseteq safes

\* C10: make_safe_move returns a cell of safes that is not in moves_made
\* when there is one, None exactly when there is none, and changes none of
\* moves_made, safes, mines and the pool.
C10_SafeMove ==
    [][ op' = "make_safe_move" =>
          /\ UNCHANGED <<moves_made, safes, mines, knowledge>>
          /\ (safes \ moves_made # {} => ret' \in safes \ moves_made)
          /\ (ret' = None <=> safes \ moves_made = {}) ]_vars

\* make_safe_move returned a cell while other safe cells were already played.
C10_Witness ==
    /\ op = "make_safe_move"
    /\ ret # None
    /\ ret \in safes \ moves_made
    /\ moves_made # {}


\* C14 (Cleanup): when add_knowledge has returned, the pool holds no
\* sentence with an empty cell set.
C14_NoEmptySentence == \A i \in DOMAIN knowledge : knowledge[i].cells # {}

\* C16: when add_knowledge has returned, no pool sentence contains a cell
\* that is in safes or in mines.
C16_Simplified ==
    \A i \in DOMAIN knowledge : knowledge[i].cells \cap (safes \cup mines) = {}

\* The pool holds an undecided sentence while cells have been inferred safe
\* and inferred mines.
C16_Witness ==
    /\ op = "add_knowledge"
    /\ mines # {}
    /\ safes \ moves_made # {}
    /\ \E i \in DOMAIN knowledge : knowledge[i].cells # {}

\* C19: after any sequence of add_knowledge calls every played cell is in
\* safes and no pool sentence contains a played cell.
C19_MovesAreSafe ==
    /\ moves_made \subseteq safes
    /\ \A i \in DOMAIN knowledge : knowledge[i].cells \cap moves_made = {}

\* Two cells were played and the pool still holds an undecided sentence.
C19_Witness ==
    /\ op = "add_knowledge"
    /\ Cardinality(moves_made) >= 2
    /\ \E i \in DOMAIN knowledge : knowledge[i].cells # {}

\* The pool K in the list order given by the permutation p of its indices.
Reordered(K, p) == [i \in DOMAIN K |-> K[p[i]]]

\* C15: the order in which the pool is processed is not observable at
\* return: for every observation the game loop can feed next, add_knowledge
\* run on the pool in any other list order ends with the same safes and
\* mines.
C15_OrderNotObservable ==
    \A cell \in all_moves(height, width) :
        (cell \notin moves_made /\ cell \notin board) =>
            \A p \in Permutations(DOMAIN knowledge) :
                LET count == nearby_mines(board, height, width, cell)
                    r0 == add_knowledge(KB, height, width, cell, count).kb
                    r1 == add_knowledge([KB EXCEPT !.knowledge = Reordered(@, p)],
                                        height, width, cell, count).kb
                IN r0.safes = r1.safes /\ r0.mines = r1.mines

\* C13: known_mines returns the cell set of the sentence when its size equals
\* the count and the empty set otherwise, known_safes returns the cell set
\* when the count is 0 and the empty set otherwise, and neither changes the
\* sentence.
C13_KnownFacts ==
    [][ LET s == knowledge[1]
        IN /\ op' = "known_mines" =>
                /\ knowledge' = knowledge
                /\ (Cardinality(s.cells) = s.count => ret' = s.cells)
                /\ (Cardinality(s.cells) # s.count => ret' = {})
           /\ op' = "known_safes" =>
                /\ knowledge' = knowledge
                /\ (s.count = 0 => ret' = s.cells)
                /\ (s.count # 0 => ret' = {}) ]_vars

\* known_mines was called on a sentence of two cells with count 2 and gave
\* both cells.
C13_Witness ==
    /\ op = "known_mines"
    /\ Len(knowledge) = 1
    /\ Cardinality(knowledge[1].cells) = 2
    /\ knowledge[1].count = 2
    /\ ret = knowledge[1].cells

C11_Terminates == (last.pc # "idle") ~> (last.pc = "idle")

\* A call on a pool that was not empty has returned, in which the resolution
\* derived a sentence and the append loop added it to the pool.
C11_Witness ==
    /\ op = "add_knowledge"
    /\ last.pc = "idle"
    /\ last.pre.knowledge # <<>>
    /\ \E k \in DOMAIN last.additional : last.additional[k].inPool

\* C12: a sentence derived by the subset rule is appended to the pool only
\* if the pool holds no sentence with the same cells and the same count at
\* that moment, so a result derived twice is added at most once.
C12_NoDuplicateInsert ==
    [][ (last.pc = "append" /\ Len(knowledge') > Len(knowledge)) =>
            LET appended == knowledge'[Len(knowledge')]
            IN /\ Len(knowledge') = Len(knowledge) + 1
               /\ appended.cells = last.additional[last.i].cells
               /\ appended.count = last.additional[last.i].count
               /\ \A k \in DOMAIN knowledge :
                     ~ (/\ knowledge[k].cells = appended.cells
                        /\ knowledge[k].count = appended.count) ]_vars

\* The append loop has ended on a list in which the same result was derived
\* twice: the first was appended to the pool, the second was not, and the
\* pool holds it once.
C12_Witness ==
    /\ last.pc = "cleanup2"
    /\ last.i = 1
    /\ \E a, b \in DOMAIN last.additional :
          /\ a < b
          /\ last.additional[a].cells = last.additional[b].cells
          /\ last.additional[a].count = last.additional[b].count
          /\ last.additional[a].inPool
          /\ ~ last.additional[b].inPool
          /\ Cardinality({ k \in DOMAIN knowledge :
                             /\ knowledge[k].cells = last.additional[a].cells
                             /\ knowledge[k].count = last.additional[a].count }) = 1

\* C17: the sentence add_knowledge(cell, count) appends to the pool has as
\* cells the in-bounds cells within Chebyshev distance 1 of cell, cell
\* excluded, that are in none of moves_made, safes and mines at that moment,
\* and as count the observed count minus the number of in-bounds neighbours
\* in mines; it is appended even when its cell set is empty.
C17_NewSentence ==
    [][ (last.pc = "idle" /\ last'.pc = "facts") =>
            LET cell == last'.cell
                around == Chebyshev1(cell)
                new_sentence == knowledge'[Len(knowledge')]
            IN /\ Len(knowledge') = Len(knowledge) + 1
               /\ new_sentence.cells = around \ (moves_made' \cup safes' \cup mines')
               /\ new_sentence.count = last'.count - Cardinality(around \cap mines') ]_vars

\* The sentence just appended is empty: every neighbour of the observed cell
\* was known already, one of them as a mine, and the observed count was not 0.
C17_Witness ==
    /\ last.pc = "facts"
    /\ last.count > 0
    /\ Chebyshev1(last.cell) \cap mines # {}
    /\ Len(knowledge) = Len(last.pre.knowledge) + 1
    /\ knowledge[Len(knowledge)].cells = {}

\* C20 (Truth of every stored constraint): with true counts of one fixed
\* board, at every point during and after add_knowledge, every sentence of
\* the pool and every sentence of additional_knowledge, the ones not appended
\* to the pool included, has count equal to the number of board mines among
\* its cells.
C20_TrueSentences ==
    /\ \A k \in DOMAIN knowledge :
          knowledge[k].count = Cardinality(knowledge[k].cells \cap board)
    /\ \A k \in DOMAIN last.additional :
          last.additional[k].count = Cardinality(last.additional[k].cells \cap board)

\* The final pass is running or over, and additional_knowledge holds a
\* derived sentence that was not appended to the pool and still names a cell
\* a later marking of the call made known.
C20_Witness ==
    /\ last.pc \in {"final", "idle"}
    /\ \E k \in DOMAIN last.additional :
          /\ ~ last.additional[k].inPool
          /\ last.additional[k].cells \cap ((safes \cup mines)
                \ (last.pre.safes \cup last.pre.mines)) # {}

====
